---- MODULE Spec2Model ----
(***************************************************************************)
(* Model of fcitx5-rime-config's two scripts:                              *)
(*   scripts/copy.py  - the projector (copy sources into a target dir)     *)
(*   scripts/init.py  - the reconciler (submodules, symlinks, .gitignore)  *)
(* Text is modelled as sequences of one-character strings so that the      *)
(* string operations of the source (lstrip, replace, splitlines, ...) are  *)
(* computed the way Python computes them.                                  *)
(***************************************************************************)
EXTENDS Integers, Sequences, FiniteSets, TLC

(***************************************************************************)
(* Bounds of the model.                                                    *)
(***************************************************************************)
MaxTextLen == 4
MaxMerges == 3

(***************************************************************************)
(* Characters.                                                             *)
(***************************************************************************)
LFc == "\n"
CRc == "\r"
\* a byte that is not valid UTF-8: data.decode("utf-8") raises on it
BADc == "#"

RECURSIVE SeqsUpTo(_, _)
SeqsUpTo(S, n) ==
    IF n = 0 THEN {<<>>}
    ELSE LET shorter == SeqsUpTo(S, n - 1)
         IN  shorter \cup {Append(s, c) : s \in {t \in shorter : Len(t) = n - 1}, c \in S}

Drop(s, n) == SubSeq(s, n + 1, Len(s))
Take(s, n) == SubSeq(s, 1, n)
StartsWith(s, p) == Len(s) >= Len(p) /\ Take(s, Len(p)) = p
IsPrefix(p, s) == StartsWith(s, p)

(***************************************************************************)
(* Python str methods used by the scripts.                                 *)
(***************************************************************************)
\* str.replace(old, new): leftmost, non-overlapping occurrences
RECURSIVE Replace(_, _, _)
Replace(s, old, new) ==
    IF s = <<>> THEN <<>>
    ELSE IF StartsWith(s, old) THEN new \o Replace(Drop(s, Len(old)), old, new)
    ELSE <<Head(s)>> \o Replace(Tail(s), old, new)

\* str.lstrip(chars): drops every leading character that is in the set chars
RECURSIVE LStrip(_, _)
LStrip(s, chars) ==
    IF s # <<>> /\ Head(s) \in chars THEN LStrip(Tail(s), chars) ELSE s

\* str.splitlines() (terminators \n, \r\n and \r; no empty last line)
RECURSIVE SplitLinesFrom(_, _)
SplitLinesFrom(s, cur) ==
    IF s = <<>> THEN (IF cur = <<>> THEN <<>> ELSE <<cur>>)
    ELSE IF StartsWith(s, <<CRc, LFc>>) THEN <<cur>> \o SplitLinesFrom(Drop(s, 2), <<>>)
    ELSE IF Head(s) \in {CRc, LFc} THEN <<cur>> \o SplitLinesFrom(Tail(s), <<>>)
    ELSE SplitLinesFrom(Tail(s), Append(cur, Head(s)))

SplitLines(s) == SplitLinesFrom(s, <<>>)

(***************************************************************************)
(* copy.py: line-ending policy.                                            *)
(***************************************************************************)
Policies == {"NONE", "LF", "CRLF", "CR"}

\* LINE_ENDINGS: the separator of a policy, <<>> standing for None
LINE_ENDINGS(p) ==
    CASE p = "LF" -> <<LFc>>
      [] p = "CRLF" -> <<CRc, LFc>>
      [] p = "CR" -> <<CRc>>
      [] OTHER -> <<>>

\* the two replacements of line 64 in the other order
NormalizeSwapped(text) == Replace(Replace(text, <<CRc>>, <<LFc>>), <<CRc, LFc>>, <<LFc>>)

\* text.replace("\r\n", "\n").replace("\r", "\n")
NormalizeNewlines(text) == Replace(Replace(text, <<CRc, LFc>>, <<LFc>>), <<CRc>>, <<LFc>>)

\* copy_with_line_ending: the bytes written to dst for the bytes data of src
TransformLineEndings(data, line_ending) ==
    IF line_ending = <<>> THEN data
    ELSE IF \E i \in 1..Len(data) : data[i] = BADc THEN data
    ELSE LET normalized == NormalizeNewlines(data)
         IN  IF line_ending # <<LFc>> THEN Replace(normalized, <<LFc>>, line_ending)
             ELSE normalized

(***************************************************************************)
(* init.py: merging a pattern into an ignore file.                         *)
(***************************************************************************)
Whitespace == {" ", LFc, CRc}

RECURSIVE RStrip(_, _)
RStrip(s, chars) ==
    IF s # <<>> /\ s[Len(s)] \in chars THEN RStrip(Take(s, Len(s) - 1), chars) ELSE s

\* str.strip()
Strip(s) == RStrip(LStrip(s, Whitespace), Whitespace)

\* _normalize_gitignore_entry
NormalizeGitignoreEntry(entry) ==
    LET s == Strip(entry)
    IN  IF StartsWith(s, <<".", "/">>) THEN LStrip(Drop(s, 2), {"/"}) ELSE s

\* an ignore file: whether it exists, and its text
NoFile == [exists |-> FALSE, text |-> <<>>]
FileOf(t) == [exists |-> TRUE, text |-> t]

\* ensure_gitignore_entry: the file after merging entry into it
EnsureGitignoreEntry(entry, gitignore) ==
    LET normalized == NormalizeGitignoreEntry(entry)
        lines == SplitLines(gitignore.text)
    IN  IF ~gitignore.exists THEN FileOf(normalized \o <<LFc>>)
        ELSE IF \E i \in 1..Len(lines) : NormalizeGitignoreEntry(lines[i]) = normalized
             THEN gitignore
        ELSE FileOf(gitignore.text \o <<LFc>> \o normalized \o <<LFc>>)

\* for pattern in ignore_list: ensure_gitignore_entry(...)
RECURSIVE EnsureAll(_, _)
EnsureAll(entries, gitignore) ==
    IF entries = <<>> THEN gitignore
    ELSE EnsureAll(Tail(entries), EnsureGitignoreEntry(Head(entries), gitignore))

(***************************************************************************)
(* The filesystem the scripts act on.  A path is a sequence of components, *)
(* a component a sequence of characters.  A filesystem maps each existing  *)
(* directory entry (not following links) to its node.                      *)
(***************************************************************************)
MaxLinkDepth == 3

Front(p) == SubSeq(p, 1, Len(p) - 1)
Last(p) == p[Len(p)]

DirNode == [k |-> "dir", c |-> <<>>, to |-> <<>>]
FileNode(content) == [k |-> "file", c |-> content, to |-> <<>>]
LinkNode(target) == [k |-> "link", c |-> <<>>, to |-> target]

\* the value standing for "no such path"
Missing == << <<"?">> >>
DotDot == <<".", ".">>

\* the components of a path string: split at "/", "" and "." dropped (pathlib)
RECURSIVE ComponentsFrom(_, _)
ComponentsFrom(s, cur) ==
    LET done == IF cur = <<>> \/ cur = <<".">> THEN <<>> ELSE <<cur>>
    IN  IF s = <<>> THEN done
        ELSE IF Head(s) = "/" THEN done \o ComponentsFrom(Tail(s), <<>>)
        ELSE ComponentsFrom(Tail(s), Append(cur, Head(s)))

Components(s) == ComponentsFrom(s, <<>>)

\* pathlib's base / s : an absolute s replaces base
PathJoin(base, s) ==
    IF s # <<>> /\ Head(s) = "/" THEN Components(s) ELSE base \o Components(s)

\* The one element of a singleton set.  Only({e(x) : x \in {v}}) is e with x
\* naming the value v, computed once.
Only(S) == CHOOSE v \in S : TRUE

\* what following links gives when they lead round in a circle
Loop == << <<"@">> >>

\* the real location of p, every symbolic link followed: Missing when
\* nothing is there, Loop when the links never end
RECURSIVE Real(_, _, _)
Real(fs, p, fuel) ==
    IF p = <<>> THEN <<>>
    ELSE LET par == Real(fs, Front(p), fuel)
         IN  IF par = Missing \/ par = Loop THEN par
             ELSE IF Last(p) = DotDot THEN (IF par = <<>> THEN <<>> ELSE Front(par))
             ELSE LET loc == Append(par, Last(p))
                  IN  IF loc \notin DOMAIN fs THEN Missing
                      ELSE IF fs[loc].k = "link"
                           THEN (IF fuel = 0 THEN Loop ELSE Real(fs, fs[loc].to, fuel - 1))
                      ELSE loc

\* the location os.stat(p) looks at, Missing when it raises
RealPath(f, p) ==
    Only({ IF rp = Loop THEN Missing ELSE rp : rp \in {Real(f, p, MaxLinkDepth)} })

KindAt(f, loc) == IF loc = <<>> THEN "dir" ELSE f[loc].k

\* os.stat(p), links followed: "dir", "file", or "none" when nothing is there
Stat(f, p) ==
    Only({ IF rp = Missing THEN "none" ELSE KindAt(f, rp) : rp \in {RealPath(f, p)} })

\* Path.exists(), Path.is_dir(), Path.is_file()
Exists(f, p) == Stat(f, p) # "none"
IsDir(f, p) == Stat(f, p) = "dir"
IsFile(f, p) == Stat(f, p) = "file"

\* the directory entry p names: its parent resolved, its last component not
EntryOf(f, p) ==
    IF p = <<>> THEN <<>>
    ELSE Only({ IF par = Missing THEN Missing
                ELSE IF KindAt(f, par) # "dir" THEN Missing
                ELSE IF Last(p) = DotDot THEN (IF par = <<>> THEN <<>> ELSE Front(par))
                ELSE Append(par, Last(p))
              : par \in {RealPath(f, Front(p))} })

\* os.lstat(p): the kind of the entry itself, "link" for a symbolic link
LStat(f, p) ==
    Only({ IF e = Missing THEN "none"
           ELSE IF e = <<>> THEN "dir"
           ELSE IF e \in DOMAIN f THEN f[e].k
           ELSE "none"
         : e \in {EntryOf(f, p)} })

IsSymlink(f, p) == LStat(f, p) = "link"

\* the names in directory d (os.scandir, Path.iterdir)
Children(f, d) ==
    Only({ {Last(q) : q \in {r \in DOMAIN f : Len(r) = Len(real) + 1 /\ Front(r) = real}}
         : real \in {RealPath(f, d)} })

\* a filesystem with the result of the last operation: "" or the exception raised
Ok(f) == [fs |-> f, err |-> ""]
Fail(f, e) == [fs |-> f, err |-> e]

Put(f, loc, node) == [q \in DOMAIN f \cup {loc} |-> IF q = loc THEN node ELSE f[q]]
Remove(f, loc) == [q \in DOMAIN f \ {loc} |-> f[q]]

\* Path.mkdir(parents=True, exist_ok=True)
RECURSIVE Mkdirs(_, _)
Mkdirs(f, p) ==
    Only({ IF sp = "dir" THEN Ok(f)
           ELSE IF lp # "none" THEN Fail(f, "FileExistsError")
           ELSE IF spar = "dir" THEN Ok(Put(f, e, DirNode))
           ELSE IF spar # "none" THEN Fail(f, "NotADirectoryError")
           ELSE Only({ IF up.err # "" THEN up
                       ELSE Ok(Put(up.fs, Append(RealPath(up.fs, Front(p)), Last(p)), DirNode))
                     : up \in {Mkdirs(f, Front(p))} })
         : sp \in {Stat(f, p)}, lp \in {LStat(f, p)}, spar \in {Stat(f, Front(p))},
           e \in {EntryOf(f, p)} })

\* Path.unlink()
Unlink(f, p) ==
    Only({ IF e = Missing \/ e \notin DOMAIN f THEN Fail(f, "FileNotFoundError")
           ELSE IF f[e].k = "dir" THEN Fail(f, "IsADirectoryError")
           ELSE Ok(Remove(f, e))
         : e \in {EntryOf(f, p)} })

\* Path.symlink_to(target)
SymlinkTo(f, p, target) ==
    Only({ IF e = Missing THEN Fail(f, "FileNotFoundError")
           ELSE IF e = <<>> \/ e \in DOMAIN f THEN Fail(f, "FileExistsError")
           ELSE Ok(Put(f, e, LinkNode(target)))
         : e \in {EntryOf(f, p)} })

\* open(p, "w").write(content): follows links, creates the file when missing
RECURSIVE WriteFile(_, _, _, _)
WriteFile(f, p, content, fuel) ==
    Only({ IF rp # Missing
           THEN (IF KindAt(f, rp) = "dir" THEN Fail(f, "IsADirectoryError")
                 ELSE Ok(Put(f, rp, FileNode(content))))
           ELSE IF e = Missing THEN Fail(f, "FileNotFoundError")
           ELSE IF e \in DOMAIN f
                THEN (IF fuel = 0 THEN Fail(f, "OSError")
                      ELSE WriteFile(f, f[e].to, content, fuel - 1))
           ELSE Ok(Put(f, e, FileNode(content)))
         : rp \in {RealPath(f, p)}, e \in {EntryOf(f, p)} })

ReadFile(f, p) == f[RealPath(f, p)].c

\* shutil.copy2(src, dst)
Copy2(f, src, dst) ==
    Only({ Only({ IF rs = Missing THEN Fail(f, "FileNotFoundError")
                  ELSE IF rt = rs THEN Fail(f, "SameFileError")
                  ELSE IF KindAt(f, rs) = "dir" THEN Fail(f, "IsADirectoryError")
                  ELSE WriteFile(f, to, f[rs].c, MaxLinkDepth)
                : rt \in {RealPath(f, to)}, rs \in {RealPath(f, src)} })
         : to \in {IF IsDir(f, dst) THEN Append(dst, Last(src)) ELSE dst} })

(***************************************************************************)
(* copy.py: the projector.                                                 *)
(***************************************************************************)
\* fnmatch.fnmatch(name, pat) for patterns of literals, "*" and "?"
RECURSIVE Fnmatch(_, _)
Fnmatch(name, pat) ==
    IF pat = <<>> THEN name = <<>>
    ELSE IF Head(pat) = "*"
         THEN Fnmatch(name, Tail(pat)) \/ (name # <<>> /\ Fnmatch(Tail(name), pat))
    ELSE /\ name # <<>>
         /\ Head(pat) = "?" \/ Head(pat) = Head(name)
         /\ Fnmatch(Tail(name), Tail(pat))

\* os.path.join(a, b): an absolute b replaces a
OsPathJoin(a, b) ==
    IF b # <<>> /\ Head(b) = "/" THEN b
    ELSE IF a = <<>> \/ a[Len(a)] = "/" THEN a \o b
    ELSE a \o <<"/">> \o b

\* a filter that takes every pattern as a literal name
ShouldIgnoreLiteral(name, ignore_patterns) ==
    \E i \in 1..Len(ignore_patterns) : name = ignore_patterns[i]

\* should_ignore
ShouldIgnore(name, ignore_patterns) ==
    \E i \in 1..Len(ignore_patterns) :
        \/ Fnmatch(name, ignore_patterns[i])
        \/ Fnmatch(name, OsPathJoin(<<"*">>, ignore_patterns[i]))

HasBadByte(data) == \E i \in 1..Len(data) : data[i] = BADc

\* copy_with_line_ending(src, dst, line_ending): the text is written when it
\* decodes, and shutil.copy2 is the path of every other case
CopyWithLineEnding(f, src, dst, line_ending) ==
    Only({ IF m.err # "" THEN m
           ELSE Only({ IF w.err # "" THEN Copy2(m.fs, src, dst) ELSE w
                     : w \in { IF line_ending = <<>> \/ HasBadByte(ReadFile(m.fs, src))
                               THEN Fail(m.fs, "copy2")
                               ELSE WriteFile(m.fs, dst,
                                              TransformLineEndings(ReadFile(m.fs, src),
                                                                   line_ending),
                                              MaxLinkDepth) } })
         : m \in {Mkdirs(f, Front(dst))} })

\* copy_tree line 93-96, apply_subdir line 110-113
CopyFile(f, src, dst, line_ending) ==
    IF line_ending # <<>> THEN CopyWithLineEnding(f, src, dst, line_ending)
    ELSE Copy2(f, src, dst)

InSeq(x, seq) == \E i \in 1..Len(seq) : seq[i] = x

\* copy_tree: the directory entries are visited in one fixed order
RECURSIVE CopyTree(_, _, _, _, _, _, _)
RECURSIVE CopyTreeEntries(_, _, _, _, _, _, _, _)
CopyTree(f, src, dst, ignore_patterns, line_ending, symlink_entries, rel_prefix) ==
    Only({ IF m.err # "" THEN m
           ELSE CopyTreeEntries(m.fs, Children(m.fs, src), src, dst, ignore_patterns,
                                line_ending, symlink_entries, rel_prefix)
         : m \in {Mkdirs(f, dst)} })

CopyTreeEntries(f, names, src, dst, ignore_patterns, line_ending, symlink_entries, rel_prefix) ==
    IF names = {} THEN Ok(f)
    ELSE Only({ Only({ IF r.err # "" THEN r
                       ELSE CopyTreeEntries(r.fs, names \ {name}, src, dst, ignore_patterns,
                                            line_ending, symlink_entries, rel_prefix)
                     : r \in { IF ShouldIgnore(name, ignore_patterns)
                                  \/ InSeq(IF rel_prefix # <<>>
                                           THEN rel_prefix \o <<"/">> \o name ELSE name,
                                           symlink_entries)
                               THEN Ok(f)
                               ELSE IF kind = "dir"
                                    THEN CopyTree(f, Append(src, name), Append(dst, name),
                                                  ignore_patterns, line_ending, symlink_entries,
                                                  IF rel_prefix # <<>>
                                                  THEN rel_prefix \o <<"/">> \o name ELSE name)
                               ELSE IF kind = "file"
                                    THEN CopyFile(f, Append(src, name), Append(dst, name),
                                                  line_ending)
                               ELSE Ok(f) } })
              : kind \in {Stat(f, Append(src, (CHOOSE n \in names : TRUE)))},
                name \in {CHOOSE n \in names : TRUE} })

\* a key the configuration does not give
Absent == <<"absent">>

\* a link step that removes what it finds at the destination and stops there
LinkOneOnce(f, path, dest, rel) ==
    IF Real(f, PathJoin(path, rel), MaxLinkDepth) \in {Missing, Loop} THEN Ok(f)
    ELSE IF Exists(f, PathJoin(dest, rel)) THEN Unlink(f, PathJoin(dest, rel))
    ELSE Only({ IF m.err # "" THEN m
                ELSE Ok(SymlinkTo(m.fs, PathJoin(dest, rel),
                                  RealPath(f, PathJoin(path, rel))).fs)
              : m \in {Mkdirs(f, Front(PathJoin(dest, rel)))} })

\* apply_subdir line 119-131: one item of the symlink list
LinkOne(f, path, dest, rel) ==
    Only({ IF src_item = Loop THEN Fail(f, "RuntimeError")
           ELSE IF src_item = Missing THEN Ok(f)
           ELSE Only({ IF u.err # "" THEN u
                       ELSE Only({ IF m.err # "" THEN m
                                   ELSE Ok(SymlinkTo(m.fs, PathJoin(dest, rel), src_item).fs)
                                 : m \in {Mkdirs(u.fs, Front(PathJoin(dest, rel)))} })
                     : u \in { IF dst_there THEN Unlink(f, PathJoin(dest, rel)) ELSE Ok(f) } })
         : src_item \in {Real(f, PathJoin(path, rel), MaxLinkDepth)},
           dst_there \in {Exists(f, PathJoin(dest, rel))} })

RECURSIVE LinkAll(_, _, _, _)
LinkAll(f, path, dest, rels) ==
    IF rels = <<>> THEN Ok(f)
    ELSE Only({ IF r.err # "" THEN r ELSE LinkAll(r.fs, path, dest, Tail(rels))
              : r \in {LinkOne(f, path, dest, Head(rels))} })

\* [s.strip().lstrip("/") for s in symlink_entries if s]
RECURSIVE CleanSymlinkEntries(_)
CleanSymlinkEntries(entries) ==
    IF entries = <<>> THEN <<>>
    ELSE (IF Head(entries) = <<>> THEN <<>> ELSE <<LStrip(Strip(Head(entries)), {"/"})>>)
         \o CleanSymlinkEntries(Tail(entries))

\* apply_subdir line 100: repo_root / item["path"].strip().lstrip("./")
ItemPath(item, repo_root) == PathJoin(repo_root, LStrip(Strip(item.path), {".", "/"}))

\* apply_subdir line 101-104: target_root / item.get("name", path.name)
ItemDest(item, target_root, repo_root) ==
    PathJoin(target_root,
             IF item.name = Absent THEN Last(ItemPath(item, repo_root)) ELSE item.name)

\* apply_subdir
ApplySubdir(f, item, target_root, line_ending, repo_root) ==
    IF item.path = Absent THEN Fail(f, "KeyError")
    ELSE Only({ IF kind = "none" THEN Ok(f)
                ELSE IF kind = "file"
                     THEN Only({ IF m.err # "" THEN m
                                 ELSE CopyFile(m.fs, path, dest, line_ending)
                               : m \in {Mkdirs(f, Front(dest))} })
                ELSE Only({ IF c.err # "" THEN c
                            ELSE LinkAll(c.fs, path, dest, CleanSymlinkEntries(item.symlink))
                          : c \in {CopyTree(f, path, dest, item.ignore, line_ending,
                                            CleanSymlinkEntries(item.symlink), <<>>)} })
              : path \in {ItemPath(item, repo_root)},
                dest \in {ItemDest(item, target_root, repo_root)},
                kind \in {Stat(f, ItemPath(item, repo_root))} })

\* shutil.copytree(src, dst, dirs_exist_ok=True): links are followed, errors
\* are collected and raised at the end
RECURSIVE ShutilCopytree(_, _, _)
RECURSIVE ShutilCopytreeEntries(_, _, _, _, _)
ShutilCopytree(f, src, dst) ==
    Only({ IF m.err # "" THEN m
           ELSE ShutilCopytreeEntries(m.fs, Children(m.fs, src), src, dst, "")
         : m \in {Mkdirs(f, dst)} })

ShutilCopytreeEntries(f, names, src, dst, errors) ==
    IF names = {} THEN [fs |-> f, err |-> errors]
    ELSE Only({ Only({ ShutilCopytreeEntries(r.fs, names \ {name}, src, dst,
                                             IF r.err # "" THEN "Error" ELSE errors)
                     : r \in { IF IsDir(f, Append(src, name))
                               THEN ShutilCopytree(f, Append(src, name), Append(dst, name))
                               ELSE Copy2(f, Append(src, name), Append(dst, name)) } })
              : name \in {CHOOSE n \in names : TRUE} })

\* a backup that makes the snapshot directory and copies nothing into it
BackupTargetShallow(f, target, backup_folder, stamp) ==
    IF Exists(f, target) THEN Mkdirs(f, Append(backup_folder, stamp)) ELSE Ok(f)

\* backup_target, the timestamp being given
BackupTarget(f, target_root, backup_folder, stamp) ==
    Only({ IF kind = "none" \/ (kind = "dir" /\ Children(f, target_root) = {}) THEN Ok(f)
           ELSE IF kind # "dir" THEN Fail(f, "NotADirectoryError")
           ELSE Only({ IF m.err # "" THEN m
                       ELSE ShutilCopytree(m.fs, target_root, Append(backup_folder, stamp))
                     : m \in {Mkdirs(f, backup_folder)} })
         : kind \in {Stat(f, target_root)} })

(***************************************************************************)
(* init.py: the reconciler.  git is modelled by the state its commands     *)
(* read and change: the host repository (branch, history, index, remote,   *)
(* submodule sections), the git directories of the nested repositories     *)
(* (.git/modules) and the remote repositories.  A world w holds the        *)
(* filesystem with them: [fs, host, modules, remotes].                     *)
(***************************************************************************)
GitName == <<".", "g", "i", "t">>
GitignoreName == <<".", "g", "i", "t", "i", "g", "n", "o", "r", "e">>
GitmodulesName == <<".", "g", "i", "t", "m", "o", "d", "u", "l", "e", "s">>

\* a nested repository in the index of the host: the commit it is at
GitlinkNode(rev) == [k |-> "gitlink", c |-> rev, to |-> <<>>]

\* two entries of an index or a commit are the same entry
SameNode(a, b) == a.k = b.k /\ a.c = b.c /\ a.to = b.to

\* the host repository right after git init
FreshHost ==
    [born |-> FALSE, branch |-> "master", head |-> << >>, index |-> << >>, commits |-> <<>>,
     remoteUrl |-> Absent, refs |-> << >>, config |-> {}]

\* is_git_repo(repo_root); every git command in the host fails without it
IsGitRepo(f, repo_root) == Exists(f, Append(repo_root, GitName))

\* the path of loc below repo_root, as git names it
RelOf(repo_root, loc) == SubSeq(loc, Len(repo_root) + 1, Len(loc))

\* one line of an ignore file against a path below the repo_root: a pattern
\* without "/" matches any component, one with "/" the leading components
IgnoreLineMatches(line, rel) ==
    Only({ IF cs = <<>> \/ Head(Strip(line)) = "#" THEN FALSE
           ELSE IF Len(cs) = 1 THEN \E i \in 1..Len(rel) : Fnmatch(rel[i], cs[1])
           ELSE Len(cs) <= Len(rel) /\ \A i \in 1..Len(cs) : Fnmatch(rel[i], cs[i])
         : cs \in {Components(Strip(line))} })

\* git's check of a path against the host's ignore file
IsIgnored(f, repo_root, loc) ==
    /\ IsFile(f, Append(repo_root, GitignoreName))
    /\ \E i \in 1..Len(SplitLines(ReadFile(f, Append(repo_root, GitignoreName)))) :
          IgnoreLineMatches(SplitLines(ReadFile(f, Append(repo_root, GitignoreName)))[i],
                            RelOf(repo_root, loc))

\* the directory at loc is the work tree of a nested repository
IsNested(f, loc) == loc \in DOMAIN f /\ f[loc].k = "dir" /\ Append(loc, GitName) \in DOMAIN f

\* loc lies inside the host's git directory or inside a nested repository
IsInner(f, repo_root, loc) ==
    \E n \in (Len(repo_root) + 1)..Len(loc) :
        \/ n = Len(repo_root) + 1 /\ loc[n] = GitName
        \/ n < Len(loc) /\ IsNested(f, SubSeq(loc, 1, n))

\* a nested work tree with no commit checked out
NoCommit == [none |-> TRUE]

\* the commit a nested work tree is at
NestedRev(w, loc) ==
    Only({ IF name \in DOMAIN w.modules /\ w.modules[name].out
           THEN w.modules[name].rev ELSE NoCommit
         : name \in {w.fs[Append(loc, GitName)].c} })

\* what git add takes from the work tree for the entry at loc
BlobOf(w, loc) ==
    IF IsNested(w.fs, loc) THEN GitlinkNode(NestedRev(w, loc)) ELSE w.fs[loc]

\* the entries of the work tree git add -A looks at
WorkTreePaths(w, repo_root) ==
    { loc \in DOMAIN w.fs :
        /\ Len(loc) > Len(repo_root) /\ IsPrefix(repo_root, loc)
        /\ ~IsInner(w.fs, repo_root, loc)
        /\ w.fs[loc].k # "dir" \/ IsNested(w.fs, loc) }

\* git add -A: the index becomes the work tree, ignored new entries left out;
\* a nested work tree without a commit makes the command fail
GitAddAll(w, repo_root) ==
    Only({ IF ~IsGitRepo(w.fs, repo_root) THEN w
           ELSE IF \E loc \in paths : SameNode(BlobOf(w, loc), GitlinkNode(NoCommit)) THEN w
           ELSE [w EXCEPT !.host.index =
                    [loc \in { q \in paths : q \in DOMAIN w.host.index
                                             \/ ~IsIgnored(w.fs, repo_root, q) } |-> BlobOf(w, loc)]]
         : paths \in {WorkTreePaths(w, repo_root)} })

\* git add <path>, for a file, a link or a nested repository at loc
GitAdd(w, repo_root, loc) ==
    IF ~IsGitRepo(w.fs, repo_root) THEN w
    ELSE IF loc \notin DOMAIN w.fs
         THEN [w EXCEPT !.host.index = [q \in DOMAIN w.host.index \ {loc} |-> w.host.index[q]]]
    ELSE IF loc \notin WorkTreePaths(w, repo_root) THEN w
    ELSE IF IsIgnored(w.fs, repo_root, loc) /\ loc \notin DOMAIN w.host.index THEN w
    ELSE IF SameNode(BlobOf(w, loc), GitlinkNode(NoCommit)) THEN w
    ELSE [w EXCEPT !.host.index = Put(w.host.index, loc, BlobOf(w, loc))]

\* the paths whose index entry differs from the last commit
StagedPaths(h) ==
    { loc \in DOMAIN h.index \cup DOMAIN h.head :
        \/ loc \notin DOMAIN h.index
        \/ loc \notin DOMAIN h.head
        \/ ~SameNode(h.index[loc], h.head[loc]) }

\* git commit -m message: the index becomes the new commit
GitCommit(h, message) ==
    [h EXCEPT !.born = TRUE, !.head = h.index,
              !.commits = Append(h.commits, [msg |-> message, files |-> StagedPaths(h)])]

\* the directories git removes with the files of a checkout: those that held
\* a removed file and hold nothing else afterwards
EmptiedDirs(f, repo_root, tree, gone) ==
    LET above == { d \in DOMAIN f : /\ f[d].k = "dir"
                                   /\ IsPrefix(repo_root, d) /\ d # repo_root
                                   /\ \E g \in gone : IsPrefix(d, g) /\ g # d }
    IN  { d \in above :
            \A q \in (DOMAIN f \ gone) \cup DOMAIN tree :
                (IsPrefix(d, q) /\ q # d) => q \in above }

\* git checkout -B branch remote/branch in the host: the branch is reset to
\* the fetched commit and the work tree follows
HostCheckoutRemote(w, repo_root, branch) ==
    Only({ IF \E loc \in DOMAIN tree \ DOMAIN w.host.head : loc \in DOMAIN w.fs
           THEN [w |-> w, rc |-> 1]
           ELSE [w |-> [w EXCEPT
                    !.fs = [loc \in ((DOMAIN w.fs \ gone) \ emptied) \cup DOMAIN tree |->
                               IF loc \in DOMAIN tree THEN tree[loc] ELSE w.fs[loc]],
                    !.host.born = TRUE,
                    !.host.branch = branch,
                    !.host.head = tree,
                    !.host.index =
                        [loc \in DOMAIN tree
                                 \cup { q \in StagedPaths(w.host) : q \in DOMAIN w.host.index }
                           |-> IF loc \in DOMAIN tree THEN tree[loc] ELSE w.host.index[loc]],
                    !.host.commits = <<[msg |-> "remote", files |-> DOMAIN tree]>>],
                 rc |-> 0]
         : tree \in {w.host.refs[branch]},
           gone \in {{ loc \in DOMAIN w.host.head :
                         /\ loc \notin DOMAIN w.host.refs[branch]
                         /\ w.host.head[loc].k # "gitlink"
                         /\ loc \in DOMAIN w.host.index
                         /\ SameNode(w.host.index[loc], w.host.head[loc]) }},
           emptied \in {EmptiedDirs(w.fs, repo_root, w.host.refs[branch],
                           { loc \in DOMAIN w.host.head :
                               /\ loc \notin DOMAIN w.host.refs[branch]
                               /\ w.host.head[loc].k # "gitlink"
                               /\ loc \in DOMAIN w.host.index
                               /\ SameNode(w.host.index[loc], w.host.head[loc]) })} })

\* init_main_repo
InitMainRepo(w, init_cfg, repo_root, net) ==
    IF Strip(init_cfg.url) = <<>> THEN w
    ELSE Only({ IF ~(net /\ Strip(init_cfg.url) \in DOMAIN w.remotes) THEN w2
                ELSE Only({ IF init_cfg.branch \in DOMAIN w3.host.refs
                            THEN Only({ IF c.rc = 0 THEN c.w
                                        ELSE [w3 EXCEPT !.host.branch = init_cfg.branch]
                                      : c \in {HostCheckoutRemote(w3, repo_root, init_cfg.branch)} })
                            ELSE [w3 EXCEPT !.host.branch = init_cfg.branch]
                          : w3 \in {[w2 EXCEPT !.host.refs = w.remotes[Strip(init_cfg.url)]]} })
              : w2 \in { IF IsGitRepo(w.fs, repo_root)
                         THEN [w EXCEPT !.host.remoteUrl = Strip(init_cfg.url)]
                         ELSE [w EXCEPT !.fs = Mkdirs(w.fs, Append(repo_root, GitName)).fs,
                                        !.host = [FreshHost EXCEPT
                                                     !.remoteUrl = Strip(init_cfg.url)]] } })

\* the text ensure_initial_commit gives a new ignore file
GeneratedIgnoreText ==
    <<"#", " ", "R", "i", "m", "e", " ", "u", "p", "d", "a", "t", "o", "r", LFc>>

\* ensure_initial_commit
EnsureInitialCommit(w, repo_root) ==
    IF IsGitRepo(w.fs, repo_root) /\ w.host.born THEN [w |-> w, err |-> ""]
    ELSE Only({ IF ~IsGitRepo(w.fs, repo_root) THEN [w |-> w1, err |-> "CalledProcessError"]
                ELSE [w |-> [w1 EXCEPT !.host =
                                GitCommit(GitAdd(w1, repo_root, Append(repo_root, GitignoreName)).host,
                                          "chore: initial commit with .gitignore")],
                      err |-> ""]
              : w1 \in { IF Exists(w.fs, Append(repo_root, GitignoreName)) THEN w
                         ELSE [w EXCEPT !.fs = WriteFile(w.fs, Append(repo_root, GitignoreName),
                                                         GeneratedIgnoreText,
                                                         MaxLinkDepth).fs] } })

\* git_commit_if_changed
GitCommitIfChanged(w, repo_root, message) ==
    IF IsGitRepo(w.fs, repo_root) /\ StagedPaths(w.host) # {}
    THEN [w EXCEPT !.host = GitCommit(w.host, message)]
    ELSE w

\* what every commit of a nested repository holds beside its ignore file
ReadmeName == <<"R">>
ReadmeText == <<"r">>

\* the ignore file at p as ensure_gitignore_entry finds it
IgnoreFileAt(f, p) == IF IsFile(f, p) THEN FileOf(ReadFile(f, p)) ELSE NoFile

\* for pattern in ignore_list: ensure_gitignore_entry(pattern, gitignore)
MergeIgnore(f, entries, gitignore) ==
    Only({ IF g.exists /\ g # IgnoreFileAt(f, gitignore)
           THEN WriteFile(f, gitignore, g.text, MaxLinkDepth)
           ELSE Ok(f)
         : g \in {EnsureAll(entries, IgnoreFileAt(f, gitignore))} })

\* the work tree of a nested repository at path after checking out rev
NestedFiles(f, path, rev) ==
    [loc \in (DOMAIN f \ {Append(path, GitignoreName)})
             \cup {Append(path, ReadmeName)}
             \cup (IF rev.exists THEN {Append(path, GitignoreName)} ELSE {}) |->
        IF loc = Append(path, ReadmeName) THEN FileNode(ReadmeText)
        ELSE IF loc = Append(path, GitignoreName) THEN FileNode(rev.text)
        ELSE f[loc]]

\* the module-mapping file with a section for name
WithSection(f, repo_root, name) ==
    Only({ IF ~IsFile(f, gm) THEN Put(f, gm, FileNode(<<name>>))
           ELSE IF InSeq(name, f[gm].c) THEN f
           ELSE Put(f, gm, FileNode(Append(f[gm].c, name)))
         : gm \in {Append(repo_root, GitmodulesName)} })

\* git submodule add, last part: the section in the host configuration and
\* the module-mapping file, both staged with the nested repository
Registered(w, repo_root, name, loc) ==
    Only({ [w1 EXCEPT !.host.index =
               Put(Put(w1.host.index, loc, BlobOf(w1, loc)),
                   Append(repo_root, GitmodulesName),
                   w1.fs[Append(repo_root, GitmodulesName)])]
         : w1 \in {[w EXCEPT !.fs = WithSection(w.fs, repo_root, name),
                             !.host.config = w.host.config \cup {name}]} })

\* a git submodule add that takes no notice of -b and checks out the default
\* branch of the clone
SubmoduleAddNoBranch(w, repo_root, name, path, url, branch, net) ==
    Only({ IF ~IsGitRepo(w.fs, repo_root) THEN [w |-> w, rc |-> 128]
           ELSE IF kind = "dir" /\ IsNested(w.fs, RealPath(w.fs, path))
                   /\ NestedRev(w, RealPath(w.fs, path)) # NoCommit
                THEN [w |-> Registered(w, repo_root, name, RealPath(w.fs, path)), rc |-> 0]
           ELSE IF kind # "none" \/ lkind # "none" THEN [w |-> w, rc |-> 128]
           ELSE IF name \notin DOMAIN w.modules /\ ~(net /\ url \in DOMAIN w.remotes)
                THEN [w |-> w, rc |-> 128]
           ELSE Only({ IF b \notin DOMAIN m.refs
                       THEN [w |-> [w EXCEPT !.fs = half,
                                             !.modules = Put(w.modules, name,
                                                             [m EXCEPT !.out = FALSE])],
                             rc |-> 128]
                       ELSE [w |-> Registered(
                                     [w EXCEPT !.fs = NestedFiles(half, path, m.refs[b]),
                                               !.modules = Put(w.modules, name,
                                                    [m EXCEPT !.branch = b, !.upstream = b,
                                                              !.rev = m.refs[b],
                                                              !.out = TRUE])],
                                     repo_root, name, path),
                             rc |-> 0]
                     : m \in { IF name \in DOMAIN w.modules THEN w.modules[name]
                               ELSE [url |-> url, refs |-> w.remotes[url], branch |-> "main",
                                     upstream |-> "main", rev |-> w.remotes[url]["main"],
                                     out |-> FALSE] },
                       b \in { "main" },
                       half \in { Put(Mkdirs(w.fs, path).fs, Append(path, GitName),
                                      FileNode(name)) } })
         : kind \in {Stat(w.fs, path)}, lkind \in {LStat(w.fs, path)} })

\* git submodule add -f [-b branch] url path; branch "" stands for no -b
SubmoduleAdd(w, repo_root, name, path, url, branch, net) ==
    Only({ IF ~IsGitRepo(w.fs, repo_root) THEN [w |-> w, rc |-> 128]
           ELSE IF kind = "dir" /\ IsNested(w.fs, RealPath(w.fs, path))
                   /\ NestedRev(w, RealPath(w.fs, path)) # NoCommit
                THEN [w |-> Registered(w, repo_root, name, RealPath(w.fs, path)), rc |-> 0]
           ELSE IF kind # "none" \/ lkind # "none" THEN [w |-> w, rc |-> 128]
           ELSE IF name \notin DOMAIN w.modules /\ ~(net /\ url \in DOMAIN w.remotes)
                THEN [w |-> w, rc |-> 128]
           ELSE Only({ IF b \notin DOMAIN m.refs
                       THEN [w |-> [w EXCEPT !.fs = half,
                                             !.modules = Put(w.modules, name,
                                                             [m EXCEPT !.out = FALSE])],
                             rc |-> 128]
                       ELSE [w |-> Registered(
                                     [w EXCEPT !.fs = NestedFiles(half, path, m.refs[b]),
                                               !.modules = Put(w.modules, name,
                                                    [m EXCEPT !.branch = b, !.upstream = b,
                                                              !.rev = m.refs[b],
                                                              !.out = TRUE])],
                                     repo_root, name, path),
                             rc |-> 0]
                     : m \in { IF name \in DOMAIN w.modules THEN w.modules[name]
                               ELSE [url |-> url, refs |-> w.remotes[url], branch |-> "main",
                                     upstream |-> "main", rev |-> w.remotes[url]["main"],
                                     out |-> FALSE] },
                       b \in { IF branch = "" THEN "main" ELSE branch },
                       half \in { Put(Mkdirs(w.fs, path).fs, Append(path, GitName),
                                      FileNode(name)) } })
         : kind \in {Stat(w.fs, path)}, lkind \in {LStat(w.fs, path)} })

\* _submodule_ensure_branch
SubmoduleEnsureBranch(w, path, branch, net) ==
    IF ~IsFile(w.fs, Append(path, GitName)) THEN [w |-> w, err |-> "CalledProcessError"]
    ELSE Only({ Only({ IF ~m.out THEN [w |-> w, err |-> "CalledProcessError"]
                       ELSE IF branch \in DOMAIN m.refs
                       THEN [w |-> [w EXCEPT
                                !.fs = NestedFiles(w.fs, RealPath(w.fs, path), m.refs[branch]),
                                !.modules = Put(w.modules, name,
                                    [m EXCEPT !.branch = branch, !.upstream = branch,
                                              !.rev = m.refs[branch]])],
                             err |-> ""]
                       ELSE IF net /\ m.url \in DOMAIN w.remotes
                       THEN [w |-> [w EXCEPT
                                !.modules = Put(w.modules, name,
                                    [m EXCEPT !.branch = branch, !.upstream = branch,
                                              !.refs = Put(m.refs, branch, m.rev)]),
                                !.remotes = Put(w.remotes, m.url,
                                                Put(w.remotes[m.url], branch, m.rev))],
                             err |-> ""]
                       ELSE [w |-> [w EXCEPT
                                !.modules = Put(w.modules, name,
                                    [m EXCEPT !.branch = branch,
                                              !.upstream = IF branch = m.branch
                                                           THEN m.upstream ELSE ""])],
                             err |-> ""]
                     : m \in { IF net /\ w.modules[name].url \in DOMAIN w.remotes
                               THEN [w.modules[name] EXCEPT
                                        !.refs = w.remotes[w.modules[name].url]]
                               ELSE w.modules[name] } })
              : name \in {ReadFile(w.fs, Append(path, GitName))} })

\* shutil.rmtree(path)
Rmtree(f, path) ==
    IF IsSymlink(f, path) THEN Fail(f, "OSError")
    ELSE IF ~IsDir(f, path) THEN Fail(f, "NotADirectoryError")
    ELSE Ok([loc \in { q \in DOMAIN f : ~IsPrefix(RealPath(f, path), q) } |-> f[loc]])

\* git rm -f rel: a tracked file or link leaves the index and the work tree
GitRm(w, repo_root, loc) ==
    IF IsGitRepo(w.fs, repo_root) /\ loc \in DOMAIN w.host.index /\ loc \in DOMAIN w.fs
       /\ w.fs[loc].k # "dir"
    THEN [w EXCEPT !.fs = Remove(w.fs, loc),
                   !.host.index = Remove(w.host.index, loc)]
    ELSE w

\* git config [-f .gitmodules] --remove-section submodule.<rel>
RemoveSections(w, repo_root, name) ==
    Only({ [w EXCEPT !.host.config = IF IsGitRepo(w.fs, repo_root)
                                     THEN w.host.config \ {name} ELSE w.host.config,
                     !.fs = IF IsFile(w.fs, gm)
                            THEN Put(w.fs, gm, FileNode(SelectSeq(w.fs[gm].c,
                                                                  LAMBDA s : s # name)))
                            ELSE w.fs]
         : gm \in {Append(repo_root, GitmodulesName)} })

\* init_submodule line 219-265: the first add has failed
Recover(w, repo_root, path_str, path, url, branch, net) ==
    Only({ Only({ IF t.err # "" THEN [w |-> [w1 EXCEPT !.fs = t.fs], err |-> t.err]
                  ELSE Only({ IF a.rc # 0 THEN [w |-> a.w, err |-> "CalledProcessError"]
                              ELSE SubmoduleEnsureBranch(a.w, path, branch, net)
                            : a \in {SubmoduleAdd(
                                       [w1 EXCEPT !.fs = t.fs,
                                                  !.modules = [n \in DOMAIN w1.modules
                                                                     \ {RelOf(repo_root, path)}
                                                               |-> w1.modules[n]]],
                                       repo_root, Components(path_str),
                                       PathJoin(repo_root, path_str), url, "", net)} })
                : t \in { IF Exists(w1.fs, path) THEN Rmtree(w1.fs, path) ELSE Ok(w1.fs) } })
         : w1 \in {RemoveSections(GitRm(w, repo_root, path), repo_root,
                                  RelOf(repo_root, path))} })

\* init_submodule line 205-265: the nested repository is brought to its branch
Bind(w, repo_root, path_str, path, url, branch, net) ==
    IF Exists(w.fs, path) /\ Exists(w.fs, Append(path, GitName))
    THEN SubmoduleEnsureBranch(w, path, branch, net)
    ELSE Only({ IF m.err # "" THEN [w |-> w, err |-> m.err]
                ELSE Only({ IF a.rc = 0 THEN [w |-> a.w, err |-> ""]
                            ELSE Recover(a.w, repo_root, path_str, path, url, branch, net)
                          : a \in {SubmoduleAdd([w EXCEPT !.fs = m.fs], repo_root, path, path,
                                                url, branch, net)} })
              : m \in {Mkdirs(w.fs, Front(path))} })

\* init_submodule line 267-290: the ignore patterns go into the nested
\* repository's ignore file, which is committed and pushed when it changed
UpdateNestedIgnore(w, path, ignore_list, net) ==
    Only({ IF g.err # "" THEN [w |-> w, err |-> g.err]
           ELSE IF ~IsFile(g.fs, Append(path, GitName)) THEN [w |-> [w EXCEPT !.fs = g.fs], err |-> ""]
           ELSE Only({ Only({ IF IgnoreFileAt(g.fs, Append(path, GitignoreName)) = m.rev
                              THEN [w |-> [w EXCEPT !.fs = g.fs], err |-> ""]
                              ELSE IF net /\ m.url \in DOMAIN w.remotes /\ m.upstream = m.branch
                              THEN [w |-> [w EXCEPT
                                       !.fs = g.fs,
                                       !.modules = Put(w.modules, name,
                                           [m EXCEPT !.rev = new,
                                                     !.refs = Put(m.refs, m.branch, new)]),
                                       !.remotes = Put(w.remotes, m.url,
                                                       Put(w.remotes[m.url], m.branch, new))],
                                    err |-> ""]
                              ELSE [w |-> [w EXCEPT
                                       !.fs = g.fs,
                                       !.modules = Put(w.modules, name, [m EXCEPT !.rev = new])],
                                    err |-> ""]
                            : m \in {w.modules[name]},
                              new \in {IgnoreFileAt(g.fs, Append(path, GitignoreName))} })
                     : name \in {ReadFile(g.fs, Append(path, GitName))} })
         : g \in {MergeIgnore(w.fs, ignore_list, Append(path, GitignoreName))} })

\* every pattern of an ignore list stripped
RECURSIVE StripAll(_)
StripAll(entries) ==
    IF entries = <<>> THEN <<>> ELSE <<Strip(Head(entries))>> \o StripAll(Tail(entries))

\* init_submodule line 292-303: the host stages the nested repository
StageSubmodule(w, repo_root, path) ==
    Only({ IF IsFile(w1.fs, Append(repo_root, GitmodulesName))
           THEN GitAdd(w1, repo_root, Append(repo_root, GitmodulesName))
           ELSE w1
         : w1 \in {GitAdd(w, repo_root, path)} })

\* an entry without a branch key: cfg.get("branch", "main") gives the default
AbsentBranch == "<absent>"

\* init_submodule line 199, init_symlink line 311:
\* repo_root / path_str.lstrip("./")
EntryPath(cfg, repo_root) == PathJoin(repo_root, LStrip(Strip(cfg.path), {".", "/"}))

\* init_submodule
InitSubmodule(w, cfg, repo_root, net) ==
    IF cfg.url = Absent THEN [w |-> w, err |-> "KeyError"]
    ELSE Only({ IF b.err = "CalledProcessError" THEN [w |-> b.w, err |-> ""]
                ELSE IF b.err # "" THEN b
                ELSE Only({ IF u.err # "" THEN u
                            ELSE [w |-> StageSubmodule(u.w, repo_root, path), err |-> ""]
                          : u \in {UpdateNestedIgnore(b.w, path, StripAll(cfg.ignore), net)} })
              : b \in {Bind(w, repo_root, Strip(cfg.path), EntryPath(cfg, repo_root),
                            Strip(cfg.url),
                            IF cfg.branch = AbsentBranch THEN "main" ELSE cfg.branch, net)},
                path \in {EntryPath(cfg, repo_root)} })

\* os.path.join(path_str, pattern) for every pattern of an ignore list
RECURSIVE JoinAll(_, _)
JoinAll(path_str, entries) ==
    IF entries = <<>> THEN <<>>
    ELSE <<OsPathJoin(path_str, Head(entries))>> \o JoinAll(path_str, Tail(entries))

\* init_symlink
InitSymlink(w, cfg, repo_root) ==
    IF cfg.url = Absent THEN [w |-> w, err |-> "KeyError"]
    ELSE Only({ IF g.err # "" THEN [w |-> w, err |-> g.err]
                ELSE IF Exists(g.fs, path) THEN [w |-> [w EXCEPT !.fs = g.fs], err |-> ""]
                ELSE Only({ IF l.err # "" THEN [w |-> [w EXCEPT !.fs = l.fs], err |-> l.err]
                            ELSE Only({ IF i.err # "" THEN [w |-> [w EXCEPT !.fs = i.fs], err |-> i.err]
                                        ELSE [w |-> GitAdd(GitAdd([w EXCEPT !.fs = i.fs],
                                                                  repo_root, path),
                                                           repo_root,
                                                           Append(repo_root, GitignoreName)),
                                              err |-> ""]
                                      : i \in { IF cfg.isIgnored
                                                THEN MergeIgnore(l.fs, <<Strip(cfg.path)>>,
                                                                 Append(repo_root, GitignoreName))
                                                ELSE Ok(l.fs) } })
                          : l \in { Only({ IF m.err # "" THEN m
                                           ELSE SymlinkTo(m.fs, path,
                                                          PathJoin(Front(path), Strip(cfg.url)))
                                         : m \in {Mkdirs(g.fs, Front(path))} }) } })
              : g \in {MergeIgnore(w.fs, JoinAll(Strip(cfg.path), cfg.ignore),
                                   Append(repo_root, GitignoreName))},
                path \in {EntryPath(cfg, repo_root)} })

\* str.lower() on the letters entry types are written with
LowerChar(c) ==
    CASE c = "L" -> "l" [] c = "N" -> "n" [] c = "G" -> "g" [] c = "X" -> "x" [] OTHER -> c

Lower(s) == [i \in 1..Len(s) |-> LowerChar(s[i])]

\* main line 349: (item.get("type") or "gitsubmodule").strip().lower()
EntryType(item) ==
    IF item.type = Absent \/ item.type = <<>>
    THEN <<"g", "i", "t", "s", "u", "b", "m", "o", "d", "u", "l", "e">>
    ELSE Lower(Strip(item.type))

\* main line 347-357: one entry of the configuration
ReconcileEntry(w, item, repo_root, net) ==
    IF item.name \in {Absent, <<>>} \/ item.path \in {Absent, <<>>} THEN [w |-> w, err |-> ""]
    ELSE IF EntryType(item) = <<"g", "i", "t", "s", "u", "b", "m", "o", "d", "u", "l", "e">>
         THEN InitSubmodule(w, item, repo_root, net)
    ELSE IF EntryType(item) = <<"l", "n">> THEN InitSymlink(w, item, repo_root)
    ELSE [w |-> w, err |-> ""]

(***************************************************************************)
(* The projector's world: the repository r with its sources, the target    *)
(* directory T, and the backup folder inside the repository.               *)
(***************************************************************************)
MaxRuns == 2
MaxClock == 2

repo_root == << <<"r">> >>
target_root == << <<"T">> >>

P(str) == Components(str)

SourceFiles ==
    [q \in { P(<<"r">>), P(<<"r", "/", "A">>), P(<<"r", "/", "A", "/", "f">>),
             P(<<"r", "/", "A", "/", "t", ".", "x">>), P(<<"r", "/", "A", "/", "d">>),
             P(<<"r", "/", "A", "/", "d", "/", "g">>), P(<<"r", "/", "B">>),
             P(<<"r", "/", "C">>), P(<<"r", "/", "C", "/", "d">>),
             P(<<"r", "/", "C", "/", "d", "/", "u", ".", "x">>),
             P(<<"r", "/", "C", "/", "d", "/", "v">>), P(<<"r", "/", "C", "/", "e", ".", "x">>),
             P(<<"r", "/", "C", "/", "e", ".", "x", "/", "h">>) } |->
        CASE q = P(<<"r", "/", "A", "/", "f">>) -> FileNode(<<"a", CRc, LFc>>)
          [] q = P(<<"r", "/", "C", "/", "d", "/", "u", ".", "x">>) -> FileNode(<<"u">>)
          [] q = P(<<"r", "/", "C", "/", "d", "/", "v">>) -> FileNode(<<"v", CRc, LFc>>)
          [] q = P(<<"r", "/", "C", "/", "e", ".", "x", "/", "h">>) -> FileNode(<<"h">>)
          [] q = P(<<"r", "/", "A", "/", "t", ".", "x">>) -> FileNode(<<"t">>)
          [] q = P(<<"r", "/", "A", "/", "d", "/", "g">>) -> FileNode(<<"g", LFc>>)
          [] q = P(<<"r", "/", "B">>) -> FileNode(<<"b">>)
          [] OTHER -> DirNode]

\* what the target directory may hold before the first run
TargetStates ==
    LET T == <<"T">>
        TX == <<"T", "/", "X">>
        TXd == <<"T", "/", "X", "/", "d">>
        TXf == <<"T", "/", "X", "/", "f">>
        TXdo == <<"T", "/", "X", "/", "d", "/", "o">>
    IN  { << >>,
          P(T) :> DirNode,
          P(T) :> DirNode @@ P(TX) :> DirNode @@ P(TXd) :> DirNode
              @@ P(TXdo) :> FileNode(<<"o">>),
          P(T) :> DirNode @@ P(TX) :> DirNode @@ P(TXd) :> FileNode(<<"o">>)
              @@ P(TXf) :> FileNode(<<"o">>),
          P(T) :> DirNode @@ P(TX) :> DirNode
              @@ P(TXd) :> LinkNode(P(<<"r", "/", "A", "/", "d">>))
              @@ P(TXf) :> FileNode(<<"a", CRc, LFc>>),
          P(T) :> DirNode @@ P(TX) :> DirNode
              @@ P(TXd) :> LinkNode(P(<<"r", "/", "g", "o", "n", "e">>)),
          P(T) :> DirNode @@ P(TX) :> DirNode
              @@ P(TXf) :> LinkNode(P(<<"r", "/", "A", "/", "f">>)) }

\* the stamp datetime.now().strftime(...) gives at clock value n
Stamp(n) == <<ToString(n)>>

\* what the backup folder may hold before the first run: nothing, or a
\* snapshot written moments ago by a run against another target
BackupStates ==
    { << >>,
      P(<<"r", "/", "k">>) :> DirNode @@ Append(P(<<"r", "/", "k">>), Stamp(1)) :> DirNode
          @@ Append(Append(P(<<"r", "/", "k">>), Stamp(1)), <<"q">>) :> FileNode(<<"q">>) }

Item(path, name, symlink) ==
    [path |-> path, name |-> name, type |-> Absent, ignore |-> << <<"*", ".", "x">> >>,
     symlink |-> symlink, url |-> Absent, branch |-> AbsentBranch, isIgnored |-> FALSE]

CopySubdirs ==
    { << Item(<<".", "/", "A">>, <<"X">>, << <<"d">> >>), Item(<<"B">>, <<"Y">>, <<>>) >>,
      << Item(<<"A">>, <<"X">>, << <<"f">>, <<"d", "/", "g">> >>), Item(<<"A">>, Absent, <<>>) >>,
      << Item(<<"A">>, <<"X">>, <<>>), Item(<<"A">>, <<"X">>, << <<"d">> >>) >>,
      << Item(<<"M">>, <<"X">>, <<>>), Item(Absent, <<"X">>, <<>>), Item(<<"B">>, <<"Y">>, <<>>) >>,
      << [Item(<<"C">>, <<"X">>, <<>>) EXCEPT !.type = <<"x", "x">>] >> }

CopyConfigs ==
    { [backupFolder |-> b, lineSplitter |-> l, subdir |-> sd] :
        b \in { <<>>, <<".", "/", "k">>, <<".", "k">> }, l \in {"NONE", "LF"},
        sd \in CopySubdirs }

(***************************************************************************)
(* The reconciler's world: the directory r holding init.yaml, which is a   *)
(* host repository or not yet one; the remote R of the nested repository   *)
(* and the remote U of the host.                                           *)
(***************************************************************************)
InitYamlName == <<"i", "n", "i", "t", ".", "y", "a", "m", "l">>

\* the directory of the host before the first run, with or without a plain
\* directory where the nested repository is to go
HostFiles(plain) ==
    [q \in { P(<<"r">>), P(<<"r", "/", "t">>), Append(P(<<"r">>), InitYamlName) }
           \cup (IF plain THEN { P(<<"r", "/", "s">>), P(<<"r", "/", "s", "/", "d">>) } ELSE {}) |->
        CASE q = Append(P(<<"r">>), InitYamlName) -> FileNode(<<"y">>)
          [] q = P(<<"r", "/", "s", "/", "d">>) -> FileNode(<<"d">>)
          [] OTHER -> DirNode]

\* what the host may be before the first run: no repository, a repository
\* with no commit (nothing staged, or init.yaml staged), one with a commit
HostStates == {"norepo", "unborn", "staged", "born"}

HostWorld(h, plain) ==
    CASE h = "norepo" -> [fs |-> HostFiles(plain), host |-> FreshHost]
      [] h = "unborn" ->
           [fs |-> Put(HostFiles(plain), Append(repo_root, GitName), DirNode),
            host |-> FreshHost]
      [] h = "staged" ->
           [fs |-> Put(HostFiles(plain), Append(repo_root, GitName), DirNode),
            host |-> [FreshHost EXCEPT
                        !.index = Append(repo_root, InitYamlName) :> FileNode(<<"y">>)]]
      [] h = "born" ->
           [fs |-> Put(Put(HostFiles(plain), Append(repo_root, GitName), DirNode),
                       Append(repo_root, GitignoreName), FileNode(<<"x", LFc>>)),
            host |-> [FreshHost EXCEPT
                        !.born = TRUE,
                        !.head = Append(repo_root, GitignoreName) :> FileNode(<<"x", LFc>>),
                        !.index = Append(repo_root, GitignoreName) :> FileNode(<<"x", LFc>>),
                        !.commits = <<[msg |-> "c0",
                                       files |-> {Append(repo_root, GitignoreName)}]>>]]

\* the remote of the host: without a branch yet, or with one commit on main
UpstreamStates ==
    { << >>, "main" :> (Append(repo_root, ReadmeName) :> FileNode(ReadmeText)) }

InitialWorld(h, plain, remotes) ==
    [fs |-> HostWorld(h, plain).fs, host |-> HostWorld(h, plain).host,
     modules |-> << >>, remotes |-> remotes]

Entry(path, name, type, url, branch, ignore, isIgnored) ==
    [path |-> path, name |-> name, type |-> type, ignore |-> ignore, symlink |-> <<>>,
     url |-> url, branch |-> branch, isIgnored |-> isIgnored]

InitSubdirs ==
    { << Entry(<<"s">>, <<"s">>, Absent, <<"R">>, "dev", << <<"*", ".", "l", "o", "g">> >>, FALSE),
         Entry(<<"l">>, <<"l">>, <<"l", "n">>, <<"/", "r", "/", "t">>, AbsentBranch,
               << <<"*", ".", "o">> >>, FALSE) >>,
      << Entry(<<".", "s">>, <<"s">>, Absent, <<"R">>, "dev", <<>>, FALSE) >>,
      << Entry(<<"s">>, <<"s">>, Absent, Absent, AbsentBranch, <<>>, FALSE),
         Entry(<<".", "/", "l">>, <<"l">>, <<"L", "N">>, <<"/", "r", "/", "t">>, AbsentBranch,
               <<>>, TRUE) >>,
      << Entry(<<"l">>, <<"x">>, <<"x", "x">>, <<"/", "r", "/", "t">>, AbsentBranch, <<>>, FALSE),
         Entry(<<"l">>, Absent, <<"l", "n">>, <<"/", "r", "/", "t">>, AbsentBranch, <<>>, FALSE),
         Entry(<<".", "/", "s">>, <<"s">>, Absent, <<"R">>, "main",
               << <<".", "/", "a">>, <<"a">> >>, FALSE) >>,
      << Entry(<<"t">>, <<"t">>, <<"l", "n">>, <<"/", "r", "/", "g", "o", "n", "e">>,
               AbsentBranch, <<>>, FALSE),
         Entry(<<"l">>, <<"l">>, <<"l", "n">>, <<"/", "r", "/", "g", "o", "n", "e">>,
               AbsentBranch, <<>>, FALSE) >> }

InitConfigs ==
    { [init |-> [url |-> u, branch |-> "main"], subdir |-> sd] :
        u \in { <<>>, <<"U">> }, sd \in InitSubdirs }


VARIABLES leText, lePolicy, leOut, lePc
VARIABLES giFile, giInit, giPrev, giLast, giCount
VARIABLES fs, cfg, now, cpPc, cpIdx, cpRun, cpNoBackup, cpStamp, cpErr, fsAtStart,
          fsAtFirst, cpAfterRun1
VARIABLES world, rcCfg, net, rcPc, rcIdx, rcRun, rcErr, rcUnbornAtStart, rcBindFailed,
          rcBranchesAtStart, rcNetAtStart

leVars == <<leText, lePolicy, leOut, lePc>>
giVars == <<giFile, giInit, giPrev, giLast, giCount>>
cpVars == <<fs, cfg, now, cpPc, cpIdx, cpRun, cpNoBackup, cpStamp, cpErr, fsAtStart,
            fsAtFirst, cpAfterRun1>>
rcVars == <<world, rcCfg, net, rcPc, rcIdx, rcRun, rcErr, rcUnbornAtStart, rcBindFailed,
            rcBranchesAtStart, rcNetAtStart>>
vars == <<leVars, giVars, cpVars, rcVars>>

\* what a step of one script leaves alone: the state of the others
othersOfLe == <<giVars, cpVars, rcVars>>
othersOfGi == <<leVars, cpVars, rcVars>>
othersOfCp == <<leVars, giVars, rcVars>>
othersOfRc == <<leVars, giVars, cpVars>>

LeInit ==
    /\ leText \in SeqsUpTo({"a", LFc, CRc, BADc}, MaxTextLen)
    /\ lePolicy \in Policies
    /\ leOut = <<>>
    /\ lePc = "start"

LeCopy ==
    /\ lePc = "start"
    /\ leOut' = TransformLineEndings(leText, LINE_ENDINGS(lePolicy))
    /\ lePc' = "done"
    /\ UNCHANGED <<leText, lePolicy>>
    /\ UNCHANGED othersOfLe

(***************************************************************************)
(* A sequence of merges into one ignore file.                              *)
(***************************************************************************)
MergePatterns ==
    { <<"a">>, <<"b">>, <<".", "/", "a">>, <<".", "/", ".", "/", "a">>, <<"/", "a">> }

InitialIgnoreFiles ==
    { NoFile, FileOf(<<>>), FileOf(<<"a", LFc>>), FileOf(<<".", "/", "a", LFc, "b">>),
      FileOf(<<"a", LFc, "a", LFc>>) }

GiInit ==
    /\ giFile \in InitialIgnoreFiles
    /\ giInit = giFile
    /\ giPrev = giFile
    /\ giLast = <<>>
    /\ giCount = 0

GiMerge ==
    /\ giCount < MaxMerges
    /\ \E entry \in MergePatterns :
          /\ giFile' = EnsureGitignoreEntry(entry, giFile)
          /\ giLast' = entry
    /\ giPrev' = giFile
    /\ giCount' = giCount + 1
    /\ UNCHANGED giInit
    /\ UNCHANGED othersOfGi

GiIdle ==
    /\ giFile = NoFile /\ giInit = NoFile /\ giPrev = NoFile
    /\ giLast = <<>> /\ giCount = 0

LeIdle ==
    /\ leText = <<>> /\ lePolicy = "NONE" /\ leOut = <<>> /\ lePc = "idle"

(***************************************************************************)
(* copy.py main(): runs of the projector against the target directory.     *)
(***************************************************************************)
\* the part of the filesystem at and under root, links kept as links
RawTree(f, root) == [q \in {r \in DOMAIN f : IsPrefix(root, r)} |-> f[q]]

\* main line 158: the backup folder as the script reads it, "" when none
BackupPath(c) == LStrip(Strip(c.backupFolder), {".", "/"})

BackupFolder(c) == PathJoin(repo_root, BackupPath(c))

CpInit ==
    /\ cfg \in CopyConfigs
    /\ \E t \in TargetStates, b \in BackupStates : fs = SourceFiles @@ t @@ b
    /\ now = 1
    /\ cpPc = "idle"
    /\ cpIdx = 0
    /\ cpRun = 0
    /\ cpNoBackup = FALSE
    /\ cpStamp = Stamp(1)
    /\ cpErr = ""
    /\ fsAtStart = fs
    /\ fsAtFirst = fs
    /\ cpAfterRun1 = << >>

\* main line 145-156: a run starts with its arguments
CopyMain ==
    /\ cpPc \in {"idle", "done", "crashed"}
    /\ cpRun < MaxRuns
    /\ cpNoBackup' \in BOOLEAN
    /\ cpPc' = "backup"
    /\ cpIdx' = 0
    /\ cpRun' = cpRun + 1
    /\ cpErr' = ""
    /\ fsAtStart' = fs
    /\ fsAtFirst' = IF cpRun = 0 THEN fs ELSE fsAtFirst
    /\ cpAfterRun1' = IF cpRun = 1
                      THEN [tree |-> RawTree(fs, target_root), noBackup |-> cpNoBackup]
                      ELSE cpAfterRun1
    /\ UNCHANGED <<fs, cfg, now, cpStamp>>
    /\ UNCHANGED othersOfCp

\* main line 157-160
MainBackup(f, c, no_backup, stamp) ==
    IF ~no_backup /\ BackupPath(c) # <<>>
    THEN BackupTarget(f, target_root, BackupFolder(c), stamp)
    ELSE Ok(f)

CopyBackup ==
    /\ cpPc = "backup"
    /\ \E r \in {MainBackup(fs, cfg, cpNoBackup, Stamp(now))} :
          /\ fs' = r.fs
          /\ cpPc' = IF r.err # "" THEN "crashed" ELSE "mkdir"
          /\ cpErr' = r.err
    /\ cpStamp' = Stamp(now)
    /\ UNCHANGED <<cfg, now, cpIdx, cpRun, cpNoBackup, fsAtStart, fsAtFirst, cpAfterRun1>>
    /\ UNCHANGED othersOfCp

\* main line 161
CopyMkTarget ==
    /\ cpPc = "mkdir"
    /\ \E r \in {Mkdirs(fs, target_root)} :
          /\ fs' = r.fs
          /\ cpPc' = IF r.err # "" THEN "crashed"
                     ELSE IF Len(cfg.subdir) = 0 THEN "done" ELSE "items"
          /\ cpErr' = r.err
    /\ UNCHANGED <<cfg, now, cpIdx, cpRun, cpNoBackup, cpStamp, fsAtStart, fsAtFirst,
                   cpAfterRun1>>
    /\ UNCHANGED othersOfCp

\* main line 162-163: the next item of the loop
CopyApply ==
    /\ cpPc = "items"
    /\ \E r \in {ApplySubdir(fs, cfg.subdir[cpIdx + 1], target_root,
                             LINE_ENDINGS(cfg.lineSplitter), repo_root)} :
          /\ fs' = r.fs
          /\ cpIdx' = IF r.err # "" THEN cpIdx ELSE cpIdx + 1
          /\ cpPc' = IF r.err # "" THEN "crashed"
                     ELSE IF cpIdx + 1 = Len(cfg.subdir) THEN "done" ELSE "items"
          /\ cpErr' = r.err
    /\ UNCHANGED <<cfg, now, cpRun, cpNoBackup, cpStamp, fsAtStart, fsAtFirst, cpAfterRun1>>
    /\ UNCHANGED othersOfCp

\* time passes between runs
Tick ==
    /\ cpPc \in {"idle", "done", "crashed"}
    /\ now < MaxClock
    /\ now' = now + 1
    /\ UNCHANGED <<fs, cfg, cpPc, cpIdx, cpRun, cpNoBackup, cpStamp, cpErr, fsAtStart,
                   fsAtFirst, cpAfterRun1>>
    /\ UNCHANGED othersOfCp

CpIdle ==
    /\ fs = << >> /\ cfg = << >> /\ now = 0 /\ cpPc = "off" /\ cpIdx = 0 /\ cpRun = 0
    /\ cpNoBackup = FALSE /\ cpStamp = <<>> /\ cpErr = "" /\ fsAtStart = << >> /\ fsAtFirst = << >>
    /\ cpAfterRun1 = << >>

(***************************************************************************)
(* init.py main(): runs of the reconciler in the host directory.           *)
(***************************************************************************)
\* the remotes of the world a configuration is run in
RemotesFor(c, u) ==
    IF c.init.url = <<>> THEN <<"R">> :> ("main" :> NoFile)
    ELSE <<"R">> :> ("main" :> NoFile) @@ <<"U">> :> u

RcInit ==
    /\ rcCfg \in InitConfigs
    /\ \E h \in HostStates, plain \in BOOLEAN, u \in UpstreamStates :
          world = InitialWorld(h, plain, RemotesFor(rcCfg, u))
    /\ net \in BOOLEAN
    /\ rcPc = "idle"
    /\ rcIdx = 0
    /\ rcRun = 0
    /\ rcErr = ""
    /\ rcUnbornAtStart = FALSE
    /\ rcBindFailed = {}
    /\ rcBranchesAtStart = {}
    /\ rcNetAtStart = FALSE

\* main line 337-340: a run starts and loads its configuration
RcStart ==
    /\ rcPc \in {"idle", "crashed"}
    /\ rcRun < MaxRuns
    /\ rcPc' = "main_repo"
    /\ rcIdx' = 0
    /\ rcRun' = rcRun + 1
    /\ rcErr' = ""
    /\ rcUnbornAtStart' = (IsGitRepo(world.fs, repo_root) /\ ~world.host.born)
    /\ rcBranchesAtStart' = DOMAIN world.remotes[<<"R">>]
    /\ rcNetAtStart' = net
    /\ UNCHANGED <<world, rcCfg, net, rcBindFailed>>
    /\ UNCHANGED othersOfRc

\* main line 341
RcMainRepo ==
    /\ rcPc = "main_repo"
    /\ world' = InitMainRepo(world, rcCfg.init, repo_root, net)
    /\ rcPc' = "initial_commit"
    /\ UNCHANGED <<rcCfg, net, rcIdx, rcRun, rcErr, rcUnbornAtStart, rcBindFailed,
                   rcBranchesAtStart, rcNetAtStart>>
    /\ UNCHANGED othersOfRc

\* main line 342
RcInitialCommit ==
    /\ rcPc = "initial_commit"
    /\ \E e \in {EnsureInitialCommit(world, repo_root)} :
          /\ world' = e.w
          /\ rcErr' = e.err
          /\ rcPc' = IF e.err # "" THEN "crashed" ELSE "entries"
    /\ UNCHANGED <<rcCfg, net, rcIdx, rcRun, rcUnbornAtStart, rcBindFailed, rcBranchesAtStart,
                   rcNetAtStart>>
    /\ UNCHANGED othersOfRc

\* init_submodule line 305: the bind of the entry ends in the except branch
BindFails(w, item, nt) ==
    /\ item.name \notin {Absent, <<>>} /\ item.path \notin {Absent, <<>>}
    /\ EntryType(item) = <<"g", "i", "t", "s", "u", "b", "m", "o", "d", "u", "l", "e">>
    /\ item.url # Absent
    /\ Bind(w, repo_root, Strip(item.path), EntryPath(item, repo_root), Strip(item.url),
            IF item.branch = AbsentBranch THEN "main" ELSE item.branch, nt).err
         = "CalledProcessError"

\* main line 344-357: the next entry of the loop
RcEntry ==
    /\ rcPc = "entries"
    /\ \E r \in {ReconcileEntry(world, rcCfg.subdir[rcIdx + 1], repo_root, net)} :
          /\ world' = r.w
          /\ rcErr' = r.err
          /\ rcIdx' = IF r.err # "" THEN rcIdx ELSE rcIdx + 1
          /\ rcPc' = IF r.err # "" THEN "crashed"
                     ELSE IF rcIdx + 1 = Len(rcCfg.subdir) THEN "stage" ELSE "entries"
    /\ rcBindFailed' = IF /\ rcRun = 1
                          /\ rcCfg.subdir[rcIdx + 1].branch \notin DOMAIN world.remotes[<<"R">>]
                          /\ BindFails(world, rcCfg.subdir[rcIdx + 1], net)
                       THEN rcBindFailed \cup {rcIdx + 1} ELSE rcBindFailed
    /\ UNCHANGED <<rcCfg, net, rcRun, rcUnbornAtStart, rcBranchesAtStart, rcNetAtStart>>
    /\ UNCHANGED othersOfRc

\* main line 358
RcStage ==
    /\ rcPc = "stage"
    /\ world' = GitAddAll(world, repo_root)
    /\ rcPc' = "commit"
    /\ UNCHANGED <<rcCfg, net, rcIdx, rcRun, rcErr, rcUnbornAtStart, rcBindFailed,
                   rcBranchesAtStart, rcNetAtStart>>
    /\ UNCHANGED othersOfRc

\* main line 359
RcCommit ==
    /\ rcPc = "commit"
    /\ world' = GitCommitIfChanged(world, repo_root, "chore: init submodules and gitignore")
    /\ rcPc' = "pull"
    /\ UNCHANGED <<rcCfg, net, rcIdx, rcRun, rcErr, rcUnbornAtStart, rcBindFailed,
                   rcBranchesAtStart, rcNetAtStart>>
    /\ UNCHANGED othersOfRc

\* main line 362: pull_main_repo is defined nowhere
RcPull ==
    /\ rcPc = "pull"
    /\ rcErr' = "NameError"
    /\ rcPc' = "crashed"
    /\ UNCHANGED <<world, rcCfg, net, rcIdx, rcRun, rcUnbornAtStart, rcBindFailed,
                   rcBranchesAtStart, rcNetAtStart>>
    /\ UNCHANGED othersOfRc

\* between runs somebody creates the branch dev on the remote R
RemoteBranchCreated ==
    /\ rcPc \in {"idle", "crashed"}
    /\ "dev" \notin DOMAIN world.remotes[<<"R">>]
    /\ world' = [world EXCEPT !.remotes[<<"R">>] =
                    Put(world.remotes[<<"R">>], "dev", world.remotes[<<"R">>]["main"])]
    /\ UNCHANGED <<rcCfg, net, rcPc, rcIdx, rcRun, rcErr, rcUnbornAtStart, rcBindFailed,
                   rcBranchesAtStart, rcNetAtStart>>
    /\ UNCHANGED othersOfRc

\* between runs the remotes become reachable or unreachable
NetChange ==
    /\ rcPc \in {"idle", "crashed"}
    /\ net' = ~net
    /\ UNCHANGED <<world, rcCfg, rcPc, rcIdx, rcRun, rcErr, rcUnbornAtStart, rcBindFailed,
                   rcBranchesAtStart, rcNetAtStart>>
    /\ UNCHANGED othersOfRc

RcIdle ==
    /\ world = << >> /\ rcCfg = << >> /\ net = FALSE /\ rcPc = "off" /\ rcIdx = 0 /\ rcRun = 0
    /\ rcErr = "" /\ rcUnbornAtStart = FALSE /\ rcBindFailed = {} /\ rcBranchesAtStart = {}
    /\ rcNetAtStart = FALSE

InitLE == LeInit /\ GiIdle /\ CpIdle /\ RcIdle
NextLE == LeCopy
SpecLE == InitLE /\ [][NextLE]_vars

InitIgnore == GiInit /\ LeIdle /\ CpIdle /\ RcIdle
NextIgnore == GiMerge
SpecIgnore == InitIgnore /\ [][NextIgnore]_vars

InitCopy == CpInit /\ LeIdle /\ GiIdle /\ RcIdle
NextCopy == CopyMain \/ CopyBackup \/ CopyMkTarget \/ CopyApply \/ Tick
SpecCopy == InitCopy /\ [][NextCopy]_vars

InitInit == RcInit /\ LeIdle /\ GiIdle /\ CpIdle
NextInit ==
    RcStart \/ RcMainRepo \/ RcInitialCommit \/ RcEntry \/ RcStage \/ RcCommit \/ RcPull
    \/ RemoteBranchCreated \/ NetChange
SpecInit == InitInit /\ [][NextInit]_vars

(***************************************************************************)
(* The projector's runs.                                                   *)
(***************************************************************************)
\* how deep the trees compared below are walked
MaxTreeDepth == 6

\* the tree at p as a reader following links sees it: the relative paths with
\* their kinds and the contents of the files
RECURSIVE Walk(_, _, _, _)
Walk(f, p, rel, fuel) ==
    Only({ IF kind = "file" THEN {<<rel, "file", ReadFile(f, p)>>}
           ELSE IF kind = "dir" /\ fuel > 0
                THEN {<<rel, "dir", <<>>>>}
                     \cup UNION { Walk(f, Append(p, n), Append(rel, n), fuel - 1)
                                  : n \in Children(f, p) }
           ELSE {<<rel, kind, <<>>>>}
         : kind \in {Stat(f, p)} })

Contents(f, root) == Walk(f, root, <<>>, MaxTreeDepth)

\* the run in progress found an existing, non-empty target directory
TargetWasNonEmpty ==
    /\ cpRun > 0
    /\ IsDir(fsAtStart, target_root)
    /\ Children(fsAtStart, target_root) # {}

\* the run in progress has created, overwritten or removed something in the
\* target directory, or has reached the step that does
TargetTouched ==
    \/ RawTree(fs, target_root) # RawTree(fsAtStart, target_root)
    \/ cpPc \in {"mkdir", "items", "done"}

\* the snapshot directory the run in progress writes
Snapshot == Append(BackupFolder(cfg), cpStamp)

\* C1 (as stated): in every run where the target directory exists, is
\* non-empty and backups are not suppressed, the whole pre-run target tree
\* has been copied into the backup folder before anything in the target
\* directory is created, overwritten or removed.
C1_BackupBeforeMutation ==
    (TargetWasNonEmpty /\ ~cpNoBackup /\ TargetTouched) =>
        Contents(fsAtStart, target_root) \subseteq Contents(fs, Snapshot)

\* C1 (amended): the same, for the runs whose backup-folder setting is not
\* empty once the script has stripped its leading "." and "/" characters.
C1_BackupBeforeMutationWhenConfigured ==
    (TargetWasNonEmpty /\ ~cpNoBackup /\ BackupPath(cfg) # <<>> /\ TargetTouched) =>
        Contents(fsAtStart, target_root) \subseteq Contents(fs, Snapshot)

C1_Witness ==
    /\ TargetWasNonEmpty /\ ~cpNoBackup /\ BackupPath(cfg) # <<>>
    /\ RawTree(fs, target_root) # RawTree(fsAtStart, target_root)
    /\ cpPc = "done"

\* the backup folder as the configuration names it, under the repository root
ConfiguredBackupFolder == PathJoin(repo_root, Strip(cfg.backupFolder))

\* C2: after a completed run that found a non-empty target directory and was
\* not told to skip the backup, the backup folder holds a new snapshot named
\* by the run's timestamp whose contents equal the target directory's
\* contents before the run, whatever the clock and the backup-folder setting.
C2_SnapshotEqualsPreRunTarget ==
    (cpPc = "done" /\ TargetWasNonEmpty /\ ~cpNoBackup) =>
        /\ ~Exists(fsAtStart, Append(ConfiguredBackupFolder, cpStamp))
        /\ Contents(fs, Append(ConfiguredBackupFolder, cpStamp))
               = Contents(fsAtStart, target_root)

\* C4: a step that handles one entry always hands over to the next entry (or
\* to the end of the run): no failure inside an entry keeps the later entries
\* from being processed.
C4_NoErrorCrossesEntryBoundary ==
    [][cpPc = "items" => (cpIdx' = cpIdx + 1 /\ cpPc' \in {"items", "done"})]_vars

\* C7: when an entry is projected, every path of its symlink list whose
\* source exists is afterwards a symbolic link at the destination, resolving
\* to that source, whatever was at the destination before.
C7_SymlinkTargetsBecomeLinks ==
    [][(cpPc = "items" /\ cfg.subdir[cpIdx + 1].path # Absent) =>
          \A i \in 1..Len(cfg.subdir[cpIdx + 1].symlink) :
              LET item == cfg.subdir[cpIdx + 1]
                  rel == CleanSymlinkEntries(item.symlink)[i]
                  src == RealPath(fs, PathJoin(ItemPath(item, repo_root), rel))
                  dst == PathJoin(ItemDest(item, target_root, repo_root), rel)
              IN  (IsDir(fs, ItemPath(item, repo_root)) /\ src # Missing) =>
                      (IsSymlink(fs', dst) /\ RealPath(fs', dst) = src)]_vars

\* the configured sources are as they were before the first run
SourcesUnchanged ==
    \A q \in DOMAIN SourceFiles : q \in DOMAIN fs /\ fs[q] = SourceFiles[q]

RECURSIVE RelText(_)
RelText(rel) ==
    IF Len(rel) = 0 THEN <<>>
    ELSE IF Len(rel) = 1 THEN rel[1]
    ELSE rel[1] \o <<"/">> \o RelText(Tail(rel))

\* a name on the relative path matches one of the patterns
MatchesOnPath(rel, patterns) ==
    \E i \in 1..Len(rel), j \in 1..Len(patterns) : Fnmatch(rel[i], patterns[j])

\* the relative path is a path of the symlink list, or lies under one
OnSymlinkPath(rel, entries) ==
    \E i \in 1..Len(rel) : InSeq(RelText(Take(rel, i)), entries)

\* what a copy of a file with contents c holds under a line-ending policy
ProjectedText(c, line_ending) ==
    IF line_ending = <<>> \/ HasBadByte(c) THEN c
    ELSE TransformLineEndings(c, line_ending)

ChangedAt(q, before, after) ==
    \/ (q \in DOMAIN before) # (q \in DOMAIN after)
    \/ q \in DOMAIN before /\ q \in DOMAIN after /\ ~SameNode(before[q], after[q])

\* C13: the steps of a run that come after the backup create, write and
\* remove only at locations under the target root, whatever the entries and
\* whatever the target directory held before, links left by an earlier
\* entry or run included; nothing of the source tree changes.
C13_WritesStayUnderTarget ==
    [][(cpPc = "mkdir" \/ cpPc = "items") =>
          (\A q \in DOMAIN fs \cup DOMAIN fs' :
              ChangedAt(q, fs, fs') => IsPrefix(target_root, q))]_vars

\* the entry types main() of init.py dispatches on (line 352-355)
KnownTypes ==
    { <<"g", "i", "t", "s", "u", "b", "m", "o", "d", "u", "l", "e">>, <<"l", "n">> }

\* C11 (projector): a step of the projector that handles an entry whose type
\* is neither gitsubmodule nor ln copies nothing and creates no link: the
\* tree at the target directory is after the step what it was before.
C11_UnknownTypeSkipped ==
    [][(cpPc = "items" /\ EntryType(cfg.subdir[cpIdx + 1]) \notin KnownTypes) =>
          RawTree(fs', target_root) = RawTree(fs, target_root)]_vars

(***************************************************************************)
(* The reconciler's runs.                                                  *)
(***************************************************************************)
\* C3: for a host repository with zero commits, when the loop over the
\* entries begins (before any bind is attempted) the host has exactly one
\* commit, and that commit holds the generated ignore file and nothing else.
C3_BootstrapBeforeBind ==
    (rcPc = "entries" /\ rcIdx = 0 /\ rcUnbornAtStart)
        => /\ Len(world.host.commits) = 1
           /\ world.host.commits[1].files = {Append(repo_root, GitignoreName)}

\* C5: after the end-of-run commit step the run goes on to the push attempt;
\* nothing aborts it there.
C5_EndOfRunReachesPush == [][rcPc = "pull" => rcPc' = "push"]_vars

\* the module whose work tree is at the entry's path
ModuleAt(w, item) == ReadFile(w.fs, Append(EntryPath(item, repo_root), GitName))

\* the entry is Bound on its branch, which tracks the remote branch
BoundOnBranch(w, item) ==
    /\ IsFile(w.fs, Append(EntryPath(item, repo_root), GitName))
    /\ ModuleAt(w, item) \in DOMAIN w.modules
    /\ w.modules[ModuleAt(w, item)].out
    /\ w.modules[ModuleAt(w, item)].branch = item.branch
    /\ w.modules[ModuleAt(w, item)].upstream = item.branch

\* the submodule sections of the host configuration and the module-mapping file
Sections(w) ==
    w.host.config
    \cup (IF IsFile(w.fs, Append(repo_root, GitmodulesName))
          THEN { w.fs[Append(repo_root, GitmodulesName)].c[i] :
                   i \in 1..Len(w.fs[Append(repo_root, GitmodulesName)].c) }
          ELSE {})

\* C6: when the bind of an entry whose branch the remote lacked failed in the
\* first run, and the second run starts with the branch on the remote and the
\* remote reachable, the second run leaves the entry Bound on the branch
\* tracking it, with no section but the entry's own.
C6_RecoveryIdempotence ==
    (rcRun = 2 /\ rcPc = "crashed" /\ rcNetAtStart /\ rcErr = "NameError")
        => \A i \in rcBindFailed :
              rcCfg.subdir[i].branch \in rcBranchesAtStart
                  => /\ BoundOnBranch(world, rcCfg.subdir[i])
                     /\ Sections(world) = {ModuleAt(world, rcCfg.subdir[i])}

\* cfg.get("branch", "main"), init_submodule line 201
RequestedBranch(item) == IF item.branch = AbsentBranch THEN "main" ELSE item.branch

\* main line 350-353: the entry is handed to init_submodule, which finds its url
IsNestedRepoEntry(item) ==
    /\ item.name \notin {Absent, <<>>} /\ item.path \notin {Absent, <<>>}
    /\ EntryType(item) = <<"g", "i", "t", "s", "u", "b", "m", "o", "d", "u", "l", "e">>
    /\ item.url # Absent

\* init_submodule line 206: a nested repository is already at the path
AlreadyBound(w, item) ==
    /\ Exists(w.fs, EntryPath(item, repo_root))
    /\ Exists(w.fs, Append(EntryPath(item, repo_root), GitName))

\* init_submodule line 210-217: the first git submodule add, with -b
FirstAdd(w, item, nt) ==
    SubmoduleAdd([w EXCEPT !.fs = Mkdirs(w.fs, Front(EntryPath(item, repo_root))).fs],
                 repo_root, EntryPath(item, repo_root), EntryPath(item, repo_root),
                 Strip(item.url), RequestedBranch(item), nt)

\* init_submodule line 210-218: the first add is reached and returns 0
FirstAddSucceeds(w, item, nt) ==
    /\ ~AlreadyBound(w, item)
    /\ Mkdirs(w.fs, Front(EntryPath(item, repo_root))).err = ""
    /\ FirstAdd(w, item, nt).rc = 0

\* init_submodule line 219-264: the recovery reaches its second add, which
\* returns 0
ReAddSucceeds(w, item, nt) ==
    LET path == EntryPath(item, repo_root)
        w1 == RemoveSections(GitRm(FirstAdd(w, item, nt).w, repo_root, path), repo_root,
                             RelOf(repo_root, path))
        t == IF Exists(w1.fs, path) THEN Rmtree(w1.fs, path) ELSE Ok(w1.fs)
    IN  /\ t.err = ""
        /\ SubmoduleAdd([w1 EXCEPT !.fs = t.fs,
                                   !.modules = [n \in DOMAIN w1.modules
                                                      \ {RelOf(repo_root, path)}
                                                |-> w1.modules[n]]],
                        repo_root, Components(Strip(item.path)),
                        PathJoin(repo_root, Strip(item.path)), Strip(item.url), "", nt).rc = 0

\* init_submodule line 206-265: _submodule_ensure_branch is called at line
\* 208 for a Bound entry and at line 265 after the recovery's second add; a
\* first add that returns 0 skips the block of line 218-265
EnsureBranchCalled(w, item, nt) ==
    \/ AlreadyBound(w, item)
    \/ /\ ~AlreadyBound(w, item)
       /\ Mkdirs(w.fs, Front(EntryPath(item, repo_root))).err = ""
       /\ FirstAdd(w, item, nt).rc # 0
       /\ ReAddSucceeds(w, item, nt)

\* the entry is Bound on the branch it asks for, which tracks the remote branch
BoundOnRequested(w, item) ==
    /\ IsFile(w.fs, Append(EntryPath(item, repo_root), GitName))
    /\ ModuleAt(w, item) \in DOMAIN w.modules
    /\ w.modules[ModuleAt(w, item)].out
    /\ w.modules[ModuleAt(w, item)].branch = RequestedBranch(item)
    /\ w.modules[ModuleAt(w, item)].upstream = RequestedBranch(item)

\* C14 (as stated): when the bind of an Unbound nested-repository entry with
\* the requested branch succeeds, the branch-resolution logic of a Bound
\* entry is run for it before the ignore-file step.
C14_BranchResolutionAfterBind ==
    [][(rcPc = "entries" /\ IsNestedRepoEntry(rcCfg.subdir[rcIdx + 1])
          /\ FirstAddSucceeds(world, rcCfg.subdir[rcIdx + 1], net)) =>
          EnsureBranchCalled(world, rcCfg.subdir[rcIdx + 1], net)]_vars

\* C14 (amended): when the bind of an Unbound nested-repository entry with
\* the requested branch succeeds, the step leaves the entry Bound on the
\* requested branch tracking the remote branch, with no branch created on
\* the remote, and the branch-resolution logic is not run for it.
C14_BindChecksOutRequestedBranch ==
    [][(rcPc = "entries" /\ IsNestedRepoEntry(rcCfg.subdir[rcIdx + 1])
          /\ FirstAddSucceeds(world, rcCfg.subdir[rcIdx + 1], net)) =>
          /\ BoundOnRequested(world', rcCfg.subdir[rcIdx + 1])
          /\ DOMAIN world'.remotes[<<"R">>] = DOMAIN world.remotes[<<"R">>]
          /\ ~EnsureBranchCalled(world, rcCfg.subdir[rcIdx + 1], net)]_vars

\* an Unbound entry that asks for a branch other than the default has been
\* bound at the first attempt
C14_Witness ==
    /\ rcRun = 1 /\ rcPc \in {"entries", "stage"} /\ rcIdx = 1
    /\ rcNetAtStart /\ "dev" \in rcBranchesAtStart
    /\ IsNestedRepoEntry(rcCfg.subdir[1])
    /\ RequestedBranch(rcCfg.subdir[1]) = "dev"
    /\ BoundOnRequested(world, rcCfg.subdir[1])

\* the pattern is a line of the ignore file, both read as the merge reads them
InIgnoreFile(pattern, f) ==
    /\ f.exists
    /\ \E i \in 1..Len(SplitLines(f.text)) :
          NormalizeGitignoreEntry(SplitLines(f.text)[i]) = NormalizeGitignoreEntry(pattern)

\* the ignore file of the nested repository at the entry's path
NestedIgnoreFile(w, item) ==
    IgnoreFileAt(w.fs, Append(EntryPath(item, repo_root), GitignoreName))

\* what the remote R holds on the branches it has in both worlds
SharedBranches(w1, w2) == DOMAIN w1.remotes[<<"R">>] \cap DOMAIN w2.remotes[<<"R">>]

\* C15: a step that handles a nested-repository entry, whichever path the
\* bind took and however it ended, leaves every ignore pattern of the entry
\* as a line of the nested repository's own ignore file; and a commit
\* reaches a branch of the remote only when the ignore file of the nested
\* repository differs from the one that branch held.
C15_IgnoreMergedOnEveryPath ==
    [][(rcPc = "entries" /\ IsNestedRepoEntry(rcCfg.subdir[rcIdx + 1])) =>
          /\ \A i \in 1..Len(rcCfg.subdir[rcIdx + 1].ignore) :
                InIgnoreFile(rcCfg.subdir[rcIdx + 1].ignore[i],
                             NestedIgnoreFile(world', rcCfg.subdir[rcIdx + 1]))
          /\ \A b \in SharedBranches(world, world') :
                world'.remotes[<<"R">>][b] # world.remotes[<<"R">>][b] =>
                    /\ world'.remotes[<<"R">>][b]
                         = NestedIgnoreFile(world', rcCfg.subdir[rcIdx + 1])
                    /\ rcCfg.subdir[rcIdx + 1].ignore # <<>>]_vars

\* the second half of C15 alone
C15_PushOnlyOnChange ==
    [][(rcPc = "entries" /\ IsNestedRepoEntry(rcCfg.subdir[rcIdx + 1])) =>
          (\A b \in SharedBranches(world, world') :
                world'.remotes[<<"R">>][b] # world.remotes[<<"R">>][b] =>
                    /\ world'.remotes[<<"R">>][b]
                         = NestedIgnoreFile(world', rcCfg.subdir[rcIdx + 1])
                    /\ rcCfg.subdir[rcIdx + 1].ignore # <<>>)]_vars

\* main line 354-355: the entry is handed to init_symlink, which finds its url
IsSymbolicLinkEntry(item) ==
    /\ item.name \notin {Absent, <<>>} /\ item.path \notin {Absent, <<>>}
    /\ EntryType(item) = <<"l", "n">>
    /\ item.url # Absent

\* C16: a step that handles a symbolic-link entry whose path already exists
\* in any form (a link, dangling or not, a file, a directory) leaves the
\* path and what is under it as they were and goes on to the next entry.
C16_ExistingLinkPathLeftAlone ==
    [][(rcPc = "entries" /\ IsSymbolicLinkEntry(rcCfg.subdir[rcIdx + 1])
          /\ LStat(world.fs, EntryPath(rcCfg.subdir[rcIdx + 1], repo_root)) # "none") =>
          /\ RawTree(world'.fs, EntryPath(rcCfg.subdir[rcIdx + 1], repo_root))
               = RawTree(world.fs, EntryPath(rcCfg.subdir[rcIdx + 1], repo_root))
          /\ rcErr' = "" /\ rcIdx' = rcIdx + 1]_vars

\* C17: a step that handles an entry with a path and a known type but no
\* name reconciles it like the projector projects it, under the name its
\* path gives: for a symbolic-link entry whose path is free, the link is
\* there after the step.
C17_NamelessEntryReconciled ==
    [][(rcPc = "entries"
          /\ rcCfg.subdir[rcIdx + 1].name = Absent
          /\ rcCfg.subdir[rcIdx + 1].path \notin {Absent, <<>>}
          /\ EntryType(rcCfg.subdir[rcIdx + 1]) = <<"l", "n">>
          /\ rcCfg.subdir[rcIdx + 1].url # Absent
          /\ LStat(world.fs, EntryPath(rcCfg.subdir[rcIdx + 1], repo_root)) = "none") =>
          IsSymlink(world'.fs, EntryPath(rcCfg.subdir[rcIdx + 1], repo_root))]_vars

\* C18: a step that handles a nested-repository entry whose path is a plain
\* directory, with no nested-repository marker in it, deletes nothing of what
\* the directory held, whatever makes the bind fail.
C18_PlainDirectoryContentsKept ==
    [][(rcPc = "entries" /\ IsNestedRepoEntry(rcCfg.subdir[rcIdx + 1])
          /\ LStat(world.fs, EntryPath(rcCfg.subdir[rcIdx + 1], repo_root)) = "dir"
          /\ ~Exists(world.fs, Append(EntryPath(rcCfg.subdir[rcIdx + 1], repo_root), GitName))) =>
          (\A q \in DOMAIN world.fs :
              IsPrefix(EntryPath(rcCfg.subdir[rcIdx + 1], repo_root), q) =>
                  q \in DOMAIN world'.fs /\ SameNode(world'.fs[q], world.fs[q]))]_vars

(***************************************************************************)
(* Reading a text as its lines, for the statements below.                  *)
(***************************************************************************)
\* the lines of a text whose terminators are \n, \r\n and \r; the text after
\* the last terminator is the last line
RECURSIVE LinesFrom(_, _)
LinesFrom(s, cur) ==
    IF s = <<>> THEN <<cur>>
    ELSE IF StartsWith(s, <<CRc, LFc>>) THEN <<cur>> \o LinesFrom(Drop(s, 2), <<>>)
    ELSE IF Head(s) \in {CRc, LFc} THEN <<cur>> \o LinesFrom(Tail(s), <<>>)
    ELSE LinesFrom(Tail(s), Append(cur, Head(s)))

\* the pieces of a text between the occurrences of exactly sep
RECURSIVE PiecesFrom(_, _, _)
PiecesFrom(s, sep, cur) ==
    IF s = <<>> THEN <<cur>>
    ELSE IF StartsWith(s, sep) THEN <<cur>> \o PiecesFrom(Drop(s, Len(sep)), sep, <<>>)
    ELSE PiecesFrom(Tail(s), sep, Append(cur, Head(s)))

IsText(s) == \A i \in 1..Len(s) : s[i] # BADc

\* C9: for a text of ordinary characters with any mix of \n, \r\n and \r, the
\* copy under LF (CRLF) is the same sequence of lines, each terminated by
\* exactly \n (\r\n) with no other \r or \n left; under NONE the copy equals
\* the input.
C9_LineEndingTransform ==
    (lePc = "done" /\ IsText(leText)) =>
        /\ lePolicy = "NONE" => leOut = leText
        /\ lePolicy \in {"LF", "CRLF"} =>
              PiecesFrom(leOut, LINE_ENDINGS(lePolicy), <<>>) = LinesFrom(leText, <<>>)

\* a text mixing a lone \n, a \r\n and a lone \r has been copied under CRLF
C9_Witness ==
    /\ lePc = "done"
    /\ lePolicy = "CRLF"
    /\ leText = <<LFc, CRc, LFc, CRc>>
    /\ leOut = <<CRc, LFc, CRc, LFc, CRc, LFc>>

(***************************************************************************)
(* Ignore-file merges.                                                     *)
(***************************************************************************)
\* a line with a leading ./ stripped
StripDotSlash(s) == IF StartsWith(s, <<".", "/">>) THEN Drop(s, 2) ELSE s

\* the non-blank lines of an ignore file, each with a leading ./ stripped
PatternLines(f) ==
    LET lines == SplitLines(f.text)
    IN  [i \in {k \in 1..Len(lines) : lines[k] # <<>>} |-> StripDotSlash(lines[i])]

HasDuplicate(f, v) ==
    LET pl == PatternLines(f)
    IN  \E i, j \in DOMAIN pl : i < j /\ pl[i] = v /\ pl[j] = v

\* C10: a merge keeps the previous content as a prefix; merging a pattern equal
\* to an existing line (a leading ./ stripped from both) changes nothing; and no
\* two lines of the file are equal after that stripping unless the file held
\* that duplicate before the first merge.
C10_MergeAppendOnlyDedup ==
    /\ giPrev.exists => IsPrefix(giPrev.text, giFile.text)
    /\ (giCount > 0 /\ giPrev.exists
          /\ \E i \in DOMAIN PatternLines(giPrev) :
                PatternLines(giPrev)[i] = StripDotSlash(giLast))
        => giFile = giPrev
    /\ \A i \in DOMAIN PatternLines(giFile) :
          HasDuplicate(giFile, PatternLines(giFile)[i])
              => HasDuplicate(giInit, PatternLines(giFile)[i])

====
